---------------------------- MODULE Spec2Model ----------------------------
(***************************************************************************)
(* Model of kobzar-ccs-ctrl: the object transaction builders and their     *)
(* apply_to_object (src/trans.rs, src/base/objtrans.rs), the interface     *)
(* version compatibility rule (src/base/mod.rs) and the package path       *)
(* chain with its comparison operators (src/base/path.rs).                 *)
(*                                                                         *)
(* Three specifications share the variables:                               *)
(*   Spec         the transaction builder and apply_to_object              *)
(*   SpecVersion  InterfaceVersion::is_compatible                          *)
(*   SpecPath     Path::eq and Path::cmp                                   *)
(* Each one holds the other components' variables at their idle values.    *)
(***************************************************************************)
EXTENDS Integers, Sequences, FiniteSets, TLC

VARIABLES
    \* ---- transaction (src/trans.rs, src/base/objtrans.rs)
    kind,       \* which struct the transaction is: "Transaction" | "ObjectTransaction"
    cmds,       \* the LinkedList<Command>, front of the list at index 1
    obj,        \* the target Object handed to apply_to_object
    result,     \* outcome of the last apply_to_object: "none" | "Ok" | "panic"
    visited,    \* commands the loop of the last apply_to_object matched, in order
    applies,    \* number of apply_to_object calls made on this transaction
    calls,      \* history: the command each builder call recorded, in caller order
    last,       \* history: the last public builder call and its arguments
    pre,        \* history: the Object as it was when apply_to_object was entered
    \* ---- versions (src/base/mod.rs)
    va, vb,     \* the two InterfaceVersion values
    vdone,      \* is_compatible has been called
    vres,       \* its return value
    \* ---- interfaces (src/base/mod.rs)
    ia, ib,     \* the two Interface values
    tree,       \* InterfaceDependency.tree: the keys of the BTreeSet, in its order
    iop,        \* operation run last: "none" | "cmp" | "add" | "includes"
    iarg,       \* the Interface handed to add or includes
    ires,       \* outcome of the operation
    iadded,     \* history: the Interfaces add has returned for
    \* ---- paths (src/base/path.rs)
    pa, pb,     \* the two Path chains, as name sequences root to leaf
    pop,        \* operation run on them: "none" | "eq" | "cmp"
    pfree,      \* deallocations of the leaf name buffer of pa and of pb made by
                \* the operation: [a |-> n, b |-> n]
    pres,       \* outcome of the operation
    pdelim,     \* the delim argument of full_path
    pstr,       \* the String full_path returned, as its sequence of characters
    \* ---- PathIter over pa
    itcur,      \* PathIter.cur: the node next() yields next, None at the end
    itout,      \* the items next() returned Some of since iter(), as the caller reads them
    itnone,     \* how often next() returned None since iter()
    itruns,     \* number of iter() calls made on pa
    itheld,     \* the caller still holds the first item (the clone of pa itself)
    \* ---- BiPathIter over pa
    bipath,     \* BiPathIter.path: the Vec of nodes
    bifront,    \* BiPathIter.front
    biback,     \* BiPathIter.back
    bifwd,      \* the items next() returned Some of
    bibwd,      \* the items next_back() returned Some of
    binone      \* None results so far: [f |-> of next, b |-> of next_back]

tvars == <<kind, cmds, obj, result, visited, applies, calls, last, pre>>
ivars == <<ia, ib, tree, iop, iarg, ires, iadded>>
vvars == <<va, vb, vdone, vres, ivars>>
itvars == <<itcur, itout, itnone, itruns, itheld>>
bivars == <<bipath, bifront, biback, bifwd, bibwd, binone>>
pvars == <<pa, pb, pop, pfree, pres, pdelim, pstr, itvars, bivars>>
vars  == <<tvars, vvars, pvars>>

----------------------------------------------------------------------------
(* Bounds of the model *)

MaxCmds == 3
MaxApplies == 2
MaxBuild == 2
MaxVer == 2
MaxPathLen == 3
StackLimit == 4
MaxIterRuns == 2
MaxNone == 2

----------------------------------------------------------------------------
(* Values *)

\* enum Visibility
Visibility == {"Public", "Internal", "Private"}

\* oldvis: Option<Visibility>
OptVisibility == Visibility \cup {"None"}

\* struct Service { name }: a service is its name
Services == {"ping"}

\* Object values a command may carry as a sub-object, by name
SubObjects == {"child"}

\* InterfaceVersion::new(major, minor, patch)
InterfaceVersion_new(major, minor, patch) ==
    [major |-> major, minor |-> minor, patch |-> patch]

\* struct Interface { name, dep, ver, pack, serv }; dep holds the names of the
\* interfaces of the dependency tree
Interface(n) ==
    IF n = "A"
    THEN [name |-> "A", dep |-> {}, ver |-> InterfaceVersion_new(1, 0, 0),
          pack |-> <<"org", "vendor">>, serv |-> {"ping"}]
    ELSE [name |-> "B", dep |-> {"A"}, ver |-> InterfaceVersion_new(1, 0, 0),
          pack |-> <<"org", "vendor">>, serv |-> {}]

Interfaces == {"A", "B"}

\* struct Object: the service sets of the three tiers, the implemented
\* interfaces and the service name index
Object(name, pubsrv, intsrv, privsrv, ints) ==
    [name |-> name, pubsrv |-> pubsrv, intsrv |-> intsrv, privsrv |-> privsrv,
     ints |-> ints, srvnames |-> pubsrv \cup intsrv \cup privsrv]

\* the Objects apply_to_object is handed
Objects ==
    { Object("O", {}, {}, {}, {}),
      Object("O", {"ping"}, {}, {}, {}),
      Object("O", {"ping"}, {}, {}, {"A"}) }

\* enum Command: a variant with its payload; vis is "NoVis" for the variants
\* that carry no Visibility
Command(op, arg, vis) == [op |-> op, arg |-> arg, vis |-> vis]

NoCall == [fn |-> "new", arg |-> "-", vis |-> "-", oldvis |-> "-"]
Call(fn, arg, vis, oldvis) == [fn |-> fn, arg |-> arg, vis |-> vis, oldvis |-> oldvis]

----------------------------------------------------------------------------
(* The builder: Transaction / ObjectTransaction *)

Building == result # "panic" /\ Len(cmds) < MaxCmds

\* fn pushcmd: self.cmds.push_front(cmd)
pushcmd(cmd) ==
    /\ cmds' = <<cmd>> \o cmds
    /\ calls' = Append(calls, cmd)

Recorded(call) ==
    /\ last' = call
    /\ UNCHANGED <<kind, obj, result, visited, applies, pre>>
    /\ UNCHANGED <<vvars, pvars>>

add_public_service(srv) ==
    /\ Building
    /\ pushcmd(Command("AddPubSrv", srv, "NoVis"))
    /\ Recorded(Call("add_public_service", srv, "-", "-"))

add_internal_service(srv) ==
    /\ Building
    /\ pushcmd(Command("AddIntSrv", srv, "NoVis"))
    /\ Recorded(Call("add_internal_service", srv, "-", "-"))

add_private_service(srv) ==
    /\ Building
    /\ pushcmd(Command("AddPrivSrv", srv, "NoVis"))
    /\ Recorded(Call("add_private_service", srv, "-", "-"))

\* the command add_service hands to pushcmd through the per-tier method it picks
add_service_cmd(srv, vis) ==
    CASE vis = "Public"   -> Command("AddPubSrv", srv, "NoVis")
      [] vis = "Private"  -> Command("AddIntSrv", srv, "NoVis")
      [] vis = "Internal" -> Command("AddIntSrv", srv, "NoVis")

add_service(srv, vis) ==
    /\ Building
    /\ pushcmd(add_service_cmd(srv, vis))
    /\ Recorded(Call("add_service", srv, vis, "-"))

remove_public_service(srv) ==
    /\ Building
    /\ pushcmd(Command("RemPubSrv", srv, "NoVis"))
    /\ Recorded(Call("remove_public_service", srv, "-", "-"))

remove_internal_service(srv) ==
    /\ Building
    /\ pushcmd(Command("RemIntSrv", srv, "NoVis"))
    /\ Recorded(Call("remove_internal_service", srv, "-", "-"))

remove_private_service(srv) ==
    /\ Building
    /\ pushcmd(Command("RemPrivSrv", srv, "NoVis"))
    /\ Recorded(Call("remove_private_service", srv, "-", "-"))

\* a slip in the match on oldvis: the Private and Internal arms exchanged
change_service_access_swapped(srv, newvis, oldvis) ==
    IF oldvis = "None"
    THEN Command("ChgSrvVis", srv, newvis)
    ELSE CASE oldvis = "Public"   -> Command("ChgPubSrvVis", srv, newvis)
           [] oldvis = "Private"  -> Command("ChgIntSrvVis", srv, newvis)
           [] oldvis = "Internal" -> Command("ChgPrivSrvVis", srv, newvis)

\* the command change_service_access hands to pushcmd
change_service_access_cmd(srv, newvis, oldvis) ==
    IF oldvis = "None"
    THEN Command("ChgSrvVis", srv, newvis)
    ELSE CASE oldvis = "Public"   -> Command("ChgPubSrvVis", srv, newvis)
           [] oldvis = "Private"  -> Command("ChgPrivSrvVis", srv, newvis)
           [] oldvis = "Internal" -> Command("ChgIntSrvVis", srv, newvis)

change_service_access(srv, newvis, oldvis) ==
    /\ Building
    /\ pushcmd(change_service_access_cmd(srv, newvis, oldvis))
    /\ Recorded(Call("change_service_access", srv, newvis, oldvis))

new_public_sub_object(o) ==
    /\ Building
    /\ pushcmd(Command("NewPubSubObj", o, "NoVis"))
    /\ Recorded(Call("new_public_sub_object", o, "-", "-"))

new_internal_sub_object(o) ==
    /\ Building
    /\ pushcmd(Command("NewIntSubObj", o, "NoVis"))
    /\ Recorded(Call("new_internal_sub_object", o, "-", "-"))

new_private_sub_object(o) ==
    /\ Building
    /\ pushcmd(Command("NewPrivSubObj", o, "NoVis"))
    /\ Recorded(Call("new_private_sub_object", o, "-", "-"))

remove_private_sub_object(o) ==
    /\ Building
    /\ pushcmd(Command("RemPrivSubObj", o, "NoVis"))
    /\ Recorded(Call("remove_private_sub_object", o, "-", "-"))

remove_internal_sub_object(o) ==
    /\ Building
    /\ pushcmd(Command("RemIntSubObj", o, "NoVis"))
    /\ Recorded(Call("remove_internal_sub_object", o, "-", "-"))

remove_public_sub_object(o) ==
    /\ Building
    /\ pushcmd(Command("RemPubSubObj", o, "NoVis"))
    /\ Recorded(Call("remove_public_sub_object", o, "-", "-"))

change_sub_object_access_cmd(o, newvis, oldvis) ==
    IF oldvis = "None"
    THEN Command("ChgSubObjVis", o, newvis)
    ELSE CASE oldvis = "Public"   -> Command("ChgPubSubObjVis", o, newvis)
           [] oldvis = "Private"  -> Command("ChgPrivSubObjVis", o, newvis)
           [] oldvis = "Internal" -> Command("ChgIntSubObjVis", o, newvis)

change_sub_object_access(o, newvis, oldvis) ==
    /\ Building
    /\ pushcmd(change_sub_object_access_cmd(o, newvis, oldvis))
    /\ Recorded(Call("change_sub_object_access", o, newvis, oldvis))

implement_interface(i) ==
    /\ Building
    /\ pushcmd(Command("ImplInt", i, "NoVis"))
    /\ Recorded(Call("implement_interface", i, "-", "-"))

unimplement_interface(i) ==
    /\ Building
    /\ pushcmd(Command("UnimplInt", i, "NoVis"))
    /\ Recorded(Call("unimplement_interface", i, "-", "-"))

----------------------------------------------------------------------------
(* apply_to_object *)

\* pub enum TransactionError { }: the enum has no variant, so it has no value
TransactionError == {}

Min(a, b) == IF a <= b THEN a ELSE b

\* index of the first command of s that is not AddPubSrv; Len(s) + 1 if none
FirstNotAddPubSrv(s) ==
    IF \E i \in 1..Len(s) : s[i].op # "AddPubSrv"
    THEN CHOOSE i \in 1..Len(s) :
            /\ s[i].op # "AddPubSrv"
            /\ \A j \in 1..(i - 1) : s[j].op = "AddPubSrv"
    ELSE Len(s) + 1

\* Transaction::apply_to_object: the commands `for cmd in self.cmds.iter()`
\* matches before the function is left.  AddPubSrv has an empty arm, every
\* other variant hits unimplemented!().
Transaction_visits(s) == SubSeq(s, 1, Min(FirstNotAddPubSrv(s), Len(s)))

\* Transaction::apply_to_object: how the call ends.  A variant other than
\* AddPubSrv panics in the loop; after the loop the function body ends in
\* unimplemented!(), so no path returns a Result.
Transaction_outcome(s) == "panic"

\* ObjectTransaction::apply_to_object: the loop body is unimplemented!()
ObjectTransaction_visits(s) == IF s = <<>> THEN <<>> ELSE <<s[1]>>

ObjectTransaction_outcome(s) == IF s = <<>> THEN "Ok" ELSE "panic"

CanApply == result # "panic" /\ applies < MaxApplies

\* Transaction::apply_to_object(&self, obj: &mut Object)
Transaction_apply_to_object(o) ==
    /\ kind = "Transaction"
    /\ CanApply
    /\ pre' = o
    /\ obj' = o
    /\ visited' = Transaction_visits(cmds)
    /\ result' = Transaction_outcome(cmds)
    /\ applies' = applies + 1
    /\ UNCHANGED <<kind, cmds, calls, last>>
    /\ UNCHANGED <<vvars, pvars>>

\* ObjectTransaction::apply_to_object(&self, obj: &mut Object)
ObjectTransaction_apply_to_object(o) ==
    /\ kind = "ObjectTransaction"
    /\ CanApply
    /\ pre' = o
    /\ obj' = o
    /\ visited' = ObjectTransaction_visits(cmds)
    /\ result' = ObjectTransaction_outcome(cmds)
    /\ applies' = applies + 1
    /\ UNCHANGED <<kind, cmds, calls, last>>
    /\ UNCHANGED <<vvars, pvars>>

----------------------------------------------------------------------------
(* Idle values of the components a specification does not run *)

NoObject == Object("", {}, {}, {}, {})

TIdle ==
    /\ kind = "Transaction"
    /\ cmds = <<>>
    /\ obj = NoObject
    /\ result = "none"
    /\ visited = <<>>
    /\ applies = 0
    /\ calls = <<>>
    /\ last = NoCall
    /\ pre = NoObject

NoInterface ==
    [name |-> "", dep |-> <<>>, ver |-> InterfaceVersion_new(0, 0, 0),
     pack |-> <<"">>, serv |-> {}]

IIdle ==
    /\ ia = NoInterface
    /\ ib = NoInterface
    /\ tree = <<>>
    /\ iop = "none"
    /\ iarg = NoInterface
    /\ ires = "none"
    /\ iadded = {}

VIdle ==
    /\ va = InterfaceVersion_new(0, 0, 0)
    /\ vb = InterfaceVersion_new(0, 0, 0)
    /\ vdone = FALSE
    /\ vres = FALSE
    /\ IIdle

PIdle ==
    /\ pa = <<"">>
    /\ pb = <<"">>
    /\ pop = "none"
    /\ pfree = [a |-> 0, b |-> 0]
    /\ pres = "none"
    /\ pdelim = ""
    /\ pstr = <<>>
    /\ itcur = <<>>
    /\ itout = <<>>
    /\ itnone = 0
    /\ itruns = 0
    /\ itheld = FALSE
    /\ bipath = <<>>
    /\ bifront = 0
    /\ biback = 0
    /\ bifwd = <<>>
    /\ bibwd = <<>>
    /\ binone = [f |-> 0, b |-> 0]

----------------------------------------------------------------------------
(* Specification of the transactions *)

\* Transaction::new / ObjectTransaction::new: an empty command list
Init ==
    /\ kind \in {"Transaction", "ObjectTransaction"}
    /\ cmds = <<>>
    /\ obj = NoObject
    /\ result = "none"
    /\ visited = <<>>
    /\ applies = 0
    /\ calls = <<>>
    /\ last = NoCall
    /\ pre = NoObject
    /\ VIdle
    /\ PIdle

\* the calls that build the command list
NextBuilder ==
    \/ \E srv \in Services : add_public_service(srv)
    \/ \E srv \in Services : add_internal_service(srv)
    \/ \E srv \in Services : add_private_service(srv)
    \/ \E srv \in Services, vis \in Visibility : add_service(srv, vis)
    \/ \E srv \in Services : remove_public_service(srv)
    \/ \E srv \in Services : remove_internal_service(srv)
    \/ \E srv \in Services : remove_private_service(srv)
    \/ \E srv \in Services, newvis \in Visibility, oldvis \in OptVisibility :
          change_service_access(srv, newvis, oldvis)
    \/ \E o \in SubObjects : new_public_sub_object(o)
    \/ \E o \in SubObjects : new_internal_sub_object(o)
    \/ \E o \in SubObjects : new_private_sub_object(o)
    \/ \E o \in SubObjects : remove_private_sub_object(o)
    \/ \E o \in SubObjects : remove_internal_sub_object(o)
    \/ \E o \in SubObjects : remove_public_sub_object(o)
    \/ \E o \in SubObjects, newvis \in Visibility, oldvis \in OptVisibility :
          change_sub_object_access(o, newvis, oldvis)
    \/ \E i \in Interfaces : implement_interface(i)
    \/ \E i \in Interfaces : unimplement_interface(i)

Next ==
    \/ NextBuilder
    \/ \E o \in Objects : Transaction_apply_to_object(o)
    \/ \E o \in Objects : ObjectTransaction_apply_to_object(o)

Spec == Init /\ [][Next]_vars

\* the builder alone, on command lists of up to MaxBuild commands: no
\* apply_to_object
NextBuild == Len(cmds) < MaxBuild /\ NextBuilder

SpecBuilder == Init /\ [][NextBuild]_vars

----------------------------------------------------------------------------
(* Claims about the transactions, checked under Spec *)

\* the error kinds the claims expect apply_to_object to return
ErrorKinds ==
    {"DuplicateName", "NotFound", "AlreadyAtVisibility", "UnmetDependency",
     "MissingService", "IncompatibleVersion", "DependentInterfaceActive",
     "ConcurrentModification"}

AddOp == [Public |-> "AddPubSrv", Internal |-> "AddIntSrv", Private |-> "AddPrivSrv"]
RemOp == [Public |-> "RemPubSrv", Internal |-> "RemIntSrv", Private |-> "RemPrivSrv"]
TierOf(o) == [Public |-> o.pubsrv, Internal |-> o.intsrv, Private |-> o.privsrv]

Applied == applies > 0

\* the batch removes, from a stated tier, a service that tier never held and
\* that no command of the batch adds to it: that command fails validation
RemovesAbsent ==
    \E j \in 1..Len(calls), t \in Visibility :
        /\ calls[j].op = RemOp[t]
        /\ calls[j].arg \notin TierOf(pre)[t]
        /\ \A i \in 1..Len(calls) : calls[i].op # AddOp[t]

\* C1: when apply_to_object is called with a batch in which a command fails
\* validation, the Object is left as it was before the call and the call
\* returns an error value (that of the first failing command).
C1_ApplyIsAtomic ==
    (Applied /\ RemovesAbsent) => (obj = pre /\ result \in ErrorKinds)

\* C2: apply_to_object visits the recorded commands in caller order: the i-th
\* command it processes is the command the i-th builder call recorded.
C2_CallerOrder ==
    Applied => \A i \in 1..Len(visited) : visited[i] = calls[i]

\* C3: apply_to_object always returns to its caller, with success or with a
\* TransactionError value; it never panics.
C3_ApplyReturns ==
    Applied => result \in ({"Ok"} \cup ErrorKinds)

\* C4: a transaction is consumed by apply_to_object: it cannot be applied a
\* second time.
C4_AppliedOnce ==
    applies <= 1

\* C5: add_service(srv, vis) records the add-service command of exactly the
\* tier vis, for each of Public, Internal and Private.
C5_AddServiceTier ==
    (last.fn = "add_service" /\ cmds # <<>>) =>
        cmds[1] = Command(AddOp[last.vis], last.arg, "NoVis")

\* the batch holds only add-service commands
OnlyAdds == \A i \in 1..Len(calls) : \E t \in Visibility : calls[i].op = AddOp[t]

\* some add-service command of the batch names a service that its tier already
\* holds, from before the call or from an earlier command of the batch
AddsDuplicate ==
    \E j \in 1..Len(calls), t \in Visibility :
        /\ calls[j].op = AddOp[t]
        /\ \/ calls[j].arg \in TierOf(pre)[t]
           \/ \E i \in 1..(j - 1) : calls[i] = calls[j]

\* the Object after every add-service command of the batch took effect
AfterAdds ==
    LET added(t) == { calls[i].arg : i \in { k \in 1..Len(calls) : calls[k].op = AddOp[t] } }
    IN  Object(pre.name, pre.pubsrv \cup added("Public"),
               pre.intsrv \cup added("Internal"),
               pre.privsrv \cup added("Private"), pre.ints)

\* C6: service names are unique per tier: an add-service command whose name the
\* same tier already holds fails with DuplicateName, while a batch of
\* add-service commands without such a collision (the same name going to
\* another tier included) succeeds and adds the services.
C6_NamesUniquePerTier ==
    (Applied /\ calls # <<>> /\ OnlyAdds) =>
        IF AddsDuplicate
        THEN result = "DuplicateName" /\ obj = pre
        ELSE result = "Ok" /\ obj = AfterAdds

\* C7: implement-interface fails with UnmetDependency when a dependency of the
\* interface is neither implemented by the Object nor by an earlier command of
\* the batch; the batch that adds public "ping", implements A and then
\* implements B (which depends on A) succeeds as one step.
C7_DependencyGating ==
    /\ (Applied /\ Len(calls) = 1 /\ calls[1].op = "ImplInt"
          /\ Interface(calls[1].arg).dep \ pre.ints # {})
       => result = "UnmetDependency"
    /\ (Applied /\ pre = Object("O", {}, {}, {}, {})
          /\ calls = << Command("AddPubSrv", "ping", "NoVis"),
                        Command("ImplInt", "A", "NoVis"),
                        Command("ImplInt", "B", "NoVis") >>)
       => (result = "Ok" /\ obj = Object("O", {"ping"}, {}, {}, {"A", "B"}))

\* the command variant of a visibility change, by the prior tier the caller
\* named: None stands for the search of all tiers
ChgSrvVariant ==
    [None |-> "ChgSrvVis", Public |-> "ChgPubSrvVis",
     Internal |-> "ChgIntSrvVis", Private |-> "ChgPrivSrvVis"]
ChgSubObjVariant ==
    [None |-> "ChgSubObjVis", Public |-> "ChgPubSubObjVis",
     Internal |-> "ChgIntSubObjVis", Private |-> "ChgPrivSubObjVis"]

\* the command a visibility-change call is to record
ExpectedChange(call) ==
    [op  |-> IF call.fn = "change_service_access"
             THEN ChgSrvVariant[call.oldvis] ELSE ChgSubObjVariant[call.oldvis],
     arg |-> call.arg,
     vis |-> call.vis]

\* s without its k-th element
Without(s, k) == SubSeq(s, 1, k - 1) \o SubSeq(s, k + 1, Len(s))

\* C18: a call of change_service_access or change_sub_object_access adds
\* exactly one command to the list; the command carries newvis and is the
\* search-all-tiers variant for oldvis = None and the variant of tier t for
\* oldvis = Some(t).
C18_VisibilityChange ==
    [][ (/\ last'.fn \in {"change_service_access", "change_sub_object_access"}
         /\ applies' = applies)
        => \E k \in 1..Len(cmds') :
              /\ cmds'[k] = ExpectedChange(last')
              /\ Without(cmds', k) = cmds ]_vars

\* a sub-object change that named the Internal tier was recorded after a
\* service change that named the Private tier, each with its own variant
C18_Witness ==
    /\ last.fn = "change_sub_object_access"
    /\ last.oldvis = "Internal"
    /\ cmds # <<>>
    /\ cmds[1].op = "ChgIntSubObjVis"
    /\ \E i \in 1..Len(cmds) : cmds[i].op = "ChgPrivSrvVis"

----------------------------------------------------------------------------
(* InterfaceVersion (src/base/mod.rs) *)

\* the u32 components are only compared, never added to: their width plays no
\* part, and small values stand for all
VersionParts == 0..MaxVer

Versions ==
    { InterfaceVersion_new(ma, mi, pa_) :
        ma \in VersionParts, mi \in VersionParts, pa_ \in VersionParts }

\* a slip in the minor comparison: equal minors are refused
is_compatible_strict(self, other) ==
    IF self.major # other.major
    THEN FALSE
    ELSE IF self.minor <= other.minor
         THEN FALSE
         ELSE TRUE

\* InterfaceVersion::is_compatible(&self, other)
is_compatible(self, other) ==
    IF self.major # other.major
    THEN FALSE
    ELSE IF self.minor < other.minor
         THEN FALSE
         ELSE TRUE

\* a call of va.is_compatible(&vb)
is_compatible_call ==
    /\ ~vdone
    /\ vres' = is_compatible(va, vb)
    /\ vdone' = TRUE
    /\ UNCHANGED <<va, vb, ivars>>
    /\ UNCHANGED <<tvars, pvars>>

InitVersion ==
    /\ va \in Versions
    /\ vb \in Versions
    /\ vdone = FALSE
    /\ vres = FALSE
    /\ IIdle
    /\ TIdle
    /\ PIdle

NextVersion == is_compatible_call

SpecVersion == InitVersion /\ [][NextVersion]_vars

\* C8: A.is_compatible(B) is true exactly when A.major = B.major and
\* A.minor >= B.minor, and no choice of the two patch components changes the
\* result.
C8_VersionCompatibility ==
    vdone =>
        /\ vres <=> (va.major = vb.major /\ va.minor >= vb.minor)
        /\ \A p \in VersionParts, q \in VersionParts :
              is_compatible([va EXCEPT !.patch = p], [vb EXCEPT !.patch = q]) = vres

\* is_compatible returned true for equal majors, equal minors and an implementer
\* patch below the required one
C8_Witness ==
    /\ vdone
    /\ vres
    /\ va.major = vb.major
    /\ va.minor = vb.minor
    /\ va.patch < vb.patch

----------------------------------------------------------------------------
(* Path (src/base/path.rs) *)

\* A Path node is its name and its chain of previous nodes: the model holds a
\* node as the sequence of names from the root to the node itself, so that
\* `prev` is the sequence without its last element.

\* Option<Rc<Path>>::None
None == <<>>

\* node names; "" is the String that owns no heap buffer (capacity 0)
PathNames == {"", "a", "b"}

\* Path::new(name)
Path_new(name) == <<name>>

\* Path::new_in_path(name, prev)
new_in_path(name, prev) == Append(prev, name)

\* field name
name_of(p) == p[Len(p)]

\* field prev: Option<Rc<Path>>
prev_of(p) == IF Len(p) > 1 THEN SubSeq(p, 1, Len(p) - 1) ELSE None

\* the paths of exactly n nodes the constructors build
RECURSIVE PathsOfLen(_)
PathsOfLen(n) ==
    IF n = 1
    THEN { Path_new(x) : x \in PathNames }
    ELSE { new_in_path(x, q) : x \in PathNames, q \in PathsOfLen(n - 1) }

Paths == UNION { PathsOfLen(n) : n \in 1..MaxPathLen }

\* impl PartialEq for Path: fn eq
RECURSIVE eq(_, _)
eq(self, other) ==
    IF prev_of(self) # None
    THEN IF prev_of(other) = None
         THEN FALSE
         ELSE eq(prev_of(other), prev_of(self))
    ELSE IF prev_of(other) = None
         THEN name_of(self) = name_of(other)
         ELSE FALSE

\* PathIter::next called until it returns None: the items, starting from cur
RECURSIVE PathIter_items(_)
PathIter_items(cur) ==
    IF cur # None
    THEN <<cur>> \o PathIter_items(prev_of(cur))
    ELSE <<>>

\* Path::iter: cur starts at a clone of the node itself, made by
\* clone_but_save_refs
iter(self) == PathIter_items(self)

\* Iterator::count
count(self) == Len(iter(self))

\* usize::cmp
usize_cmp(a, b) == IF a > b THEN "Greater" ELSE IF a < b THEN "Less" ELSE "Equal"

\* impl Ord for Path: fn cmp, as far as it runs without undefined behaviour.
\* d is the number of cmp frames on the stack.  On equal counts the loop takes
\* the first item of i0, which is (a clone of) self, and compares it with the
\* first item of i1, (a clone of) other, by Path::cmp again.
RECURSIVE cmp_at(_, _, _)
cmp_at(self, other, d) ==
    IF d > StackLimit
    THEN "StackOverflow"
    ELSE LET c == usize_cmp(count(self), count(other))
         IN  IF c = "Greater" THEN "Greater"
             ELSE IF c = "Less" THEN "Less"
             ELSE cmp_at(iter(self)[1], iter(other)[1], d + 1)

cmp(self, other) == cmp_at(self, other, 1)

\* clone_but_save_refs builds the clone's name with String::from_raw_parts on
\* the buffer of self.name: the clone owns the same buffer, and dropping the
\* clone deallocates it when its capacity is not 0.
owns_buffer(p) == name_of(p) # ""

\* Path::cmp calls self.iter() twice and other.iter() twice; each PathIter holds
\* one such clone in an Rc of count 1.  In one frame that returns, the clone in
\* `self.iter().count()` is dropped by count and the clone in i0 at the return:
\* the leaf name buffer of self is deallocated twice, and so is that of other.
\* In a frame that recurses, count drops one clone of each.
cmp_frees(self, other) ==
    IF cmp(self, other) \in {"Greater", "Less"}
    THEN [a |-> 2, b |-> 2]
    ELSE [a |-> StackLimit, b |-> StackLimit]

\* a second deallocation of the same buffer is undefined behaviour
double_free(self, other) ==
    \/ owns_buffer(self) /\ cmp_frees(self, other).a >= 2
    \/ owns_buffer(other) /\ cmp_frees(self, other).b >= 2

\* what a call of Path::cmp may end in: with a double free the build may
\* still produce the value, or the allocator may abort the process
cmp_outcomes(self, other) ==
    IF double_free(self, other)
    THEN {cmp(self, other), "Abort"}
    ELSE {cmp(self, other)}

\* a String of the model as its sequence of characters
Chars(str) ==
    CASE str = ""   -> <<>>
      [] str = "a"  -> <<"a">>
      [] str = "b"  -> <<"b">>
      [] str = "."  -> <<".">>
      [] str = "::" -> <<":", ":">>
      [] str = "ping" -> <<"p", "i", "n", "g">>

\* str::len
str_len(str) == Len(Chars(str))

\* the delimiters full_path is called with
Delims == {".", "::"}

\* Path::full_path, first loop: the sum of the name lengths and the number of
\* nodes, over the items of self.iter()
RECURSIVE full_path_strings(_)
full_path_strings(items) ==
    IF items = <<>> THEN 0
    ELSE str_len(name_of(Head(items))) + full_path_strings(Tail(items))

\* Path::full_path: `length`, the capacity the String is created with
full_path_length(self, delim) ==
    LET strings == full_path_strings(iter(self))
        delims  == Len(iter(self)) - 1
    IN  strings + delims * str_len(delim)

\* Path::full_path, second loop: fullpath += &node.name; fullpath += delim for
\* every item of self.iter(), in the order the iterator yields them
RECURSIVE full_path_push(_, _)
full_path_push(items, delim) ==
    IF items = <<>> THEN <<>>
    ELSE Chars(name_of(Head(items))) \o Chars(delim)
            \o full_path_push(Tail(items), delim)

\* Path::full_path(&self, delim), as far as it runs without undefined behaviour
full_path(self, delim) == full_path_push(iter(self), delim)

\* the first loop drops the clone made by clone_but_save_refs and with it the
\* buffer of the leaf name; the second loop reads the name through a second
\* clone and drops that one too
full_path_frees(self) == [a |-> 2, b |-> 0]

\* what a call of full_path may end in.  When the leaf name owns a buffer the
\* second loop reads deallocated memory and deallocates it again: the build
\* may produce the string, a string with other bytes ("?") in place of the leaf
\* name, or abort in the allocator.
full_path_outcomes(self, delim) ==
    IF owns_buffer(self)
    THEN { [res |-> "Ok", str |-> full_path(self, delim)],
           [res |-> "Ok", str |-> <<"?">> \o Chars(delim)
                                    \o full_path_push(Tail(iter(self)), delim)],
           [res |-> "Abort", str |-> <<>>] }
    ELSE { [res |-> "Ok", str |-> full_path(self, delim)] }

\* a call of pa.full_path(delim)
Path_full_path(delim) ==
    /\ pop = "none"
    /\ pop' = "full_path"
    /\ pdelim' = delim
    /\ \E out \in full_path_outcomes(pa, delim) :
          /\ pres' = out.res
          /\ pstr' = out.str
    /\ pfree' = IF owns_buffer(pa) THEN full_path_frees(pa) ELSE pfree
    /\ UNCHANGED <<pa, pb, itvars, bivars>>
    /\ UNCHANGED <<tvars, vvars>>

\* the item as the caller reads it: a node whose name buffer was deallocated
\* may show other bytes ("?") in place of its name
garbled(item) == SubSeq(item, 1, Len(item) - 1) \o <<"?">>

\* pa.iter(): a new PathIter, cur = Some(Rc::new(clone_but_save_refs(pa))).
\* The iterator before it is at its end and holds nothing.
Path_iter ==
    /\ pop \in {"none", "iter"}
    /\ pres # "Abort"
    /\ itruns < MaxIterRuns
    /\ itruns > 0 => itnone > 0
    /\ pop' = "iter"
    /\ pres' = "Ok"
    /\ itcur' = pa
    /\ itout' = <<>>
    /\ itnone' = 0
    /\ itruns' = itruns + 1
    /\ itheld' = FALSE
    /\ UNCHANGED <<pa, pb, pfree, pdelim, pstr, bivars>>
    /\ UNCHANGED <<tvars, vvars>>

\* PathIter::next, called from a loop: the item of the call before has been
\* dropped by the caller.  Dropping the first item drops the clone of pa and
\* deallocates the buffer of its name; a second deallocation of that buffer
\* may abort.  Reading the name of the clone after the buffer was deallocated
\* may give other bytes.
PathIter_next ==
    /\ pop = "iter"
    /\ pres = "Ok"
    /\ itnone < MaxNone
    /\ LET frees   == itheld /\ owns_buffer(pa)
           first   == itcur = pa /\ Len(itout) = 0
           dangling == first /\ owns_buffer(pa) /\ pfree.a > 0
       IN  /\ pfree' = IF frees THEN [pfree EXCEPT !.a = @ + 1] ELSE pfree
           /\ pres' \in IF frees /\ pfree.a >= 1 THEN {"Ok", "Abort"} ELSE {"Ok"}
           /\ IF itcur # None
              THEN /\ itout' \in { Append(itout, x) :
                                     x \in IF dangling THEN {itcur, garbled(itcur)}
                                                       ELSE {itcur} }
                   /\ itcur' = prev_of(itcur)
                   /\ itheld' = first
                   /\ itnone' = itnone
              ELSE /\ itnone' = itnone + 1
                   /\ itheld' = FALSE
                   /\ UNCHANGED <<itcur, itout>>
    /\ UNCHANGED <<pa, pb, pop, pdelim, pstr, itruns, bivars>>
    /\ UNCHANGED <<tvars, vvars>>

\* the nodes of a chain as PathIter yields them: the node itself, then prev
PathIter_nodes(p) == [i \in 1..Len(p) |-> SubSeq(p, 1, Len(p) - i + 1)]

\* Vec::reverse
reverse(vec) == [i \in 1..Len(vec) |-> vec[Len(vec) - i + 1]]

\* pa.bi_iter(): self.iter().count() walks and drops a first clone of pa, which
\* deallocates the buffer of its name; the loop then collects the nodes of a
\* second walk, whose first node is a clone over the deallocated buffer, and
\* reverses them.
Path_bi_iter ==
    /\ pop = "none"
    /\ pop' = "bi_iter"
    /\ pres' = "Ok"
    /\ pfree' = IF owns_buffer(pa) THEN [pfree EXCEPT !.a = @ + 1] ELSE pfree
    /\ bipath' \in { reverse(nodes) :
                      nodes \in IF owns_buffer(pa)
                                THEN {PathIter_nodes(pa),
                                      <<garbled(pa)>> \o Tail(PathIter_nodes(pa))}
                                ELSE {PathIter_nodes(pa)} }
    /\ bifront' = 0
    /\ biback' = 0
    /\ bifwd' = <<>>
    /\ bibwd' = <<>>
    /\ binone' = [f |-> 0, b |-> 0]
    /\ UNCHANGED <<pa, pb, pdelim, pstr, itvars>>
    /\ UNCHANGED <<tvars, vvars>>

\* BiPathIter::next
BiPathIter_next ==
    /\ pop = "bi_iter"
    /\ binone.f < MaxNone
    /\ IF Len(bipath) >= bifront
       THEN /\ binone' = [binone EXCEPT !.f = @ + 1]
            /\ UNCHANGED <<bifront, bifwd>>
       ELSE /\ bifwd' = Append(bifwd, bipath[bifront + 1])
            /\ bifront' = bifront + 1
            /\ UNCHANGED binone
    /\ UNCHANGED <<pa, pb, pop, pfree, pres, pdelim, pstr, itvars, bipath, biback, bibwd>>
    /\ UNCHANGED <<tvars, vvars>>

\* BiPathIter::next_back
BiPathIter_next_back ==
    /\ pop = "bi_iter"
    /\ binone.b < MaxNone
    /\ IF Len(bipath) >= biback
       THEN /\ binone' = [binone EXCEPT !.b = @ + 1]
            /\ UNCHANGED <<biback, bibwd>>
       ELSE /\ bibwd' = Append(bibwd, bipath[Len(bipath) - biback - 1 + 1])
            /\ biback' = biback + 1
            /\ UNCHANGED binone
    /\ UNCHANGED <<pa, pb, pop, pfree, pres, pdelim, pstr, itvars, bipath, bifront, bifwd>>
    /\ UNCHANGED <<tvars, vvars>>

\* a call of pa == pb
Path_eq ==
    /\ pop = "none"
    /\ pop' = "eq"
    /\ pres' = IF eq(pa, pb) THEN "true" ELSE "false"
    /\ UNCHANGED <<pa, pb, pfree, pdelim, pstr, itvars, bivars>>
    /\ UNCHANGED <<tvars, vvars>>

\* a call of pa.cmp(&pb)
Path_cmp ==
    /\ pop = "none"
    /\ pop' = "cmp"
    /\ pres' \in cmp_outcomes(pa, pb)
    /\ pfree' = cmp_frees(pa, pb)
    /\ UNCHANGED <<pa, pb, pdelim, pstr, itvars, bivars>>
    /\ UNCHANGED <<tvars, vvars>>

InitPath ==
    /\ pa \in Paths
    /\ pb \in Paths
    /\ pop = "none"
    /\ pfree = [a |-> 0, b |-> 0]
    /\ pres = "none"
    /\ pdelim = ""
    /\ pstr = <<>>
    /\ itcur = <<>>
    /\ itout = <<>>
    /\ itnone = 0
    /\ itruns = 0
    /\ itheld = FALSE
    /\ bipath = <<>>
    /\ bifront = 0
    /\ biback = 0
    /\ bifwd = <<>>
    /\ bibwd = <<>>
    /\ binone = [f |-> 0, b |-> 0]
    /\ TIdle
    /\ VIdle

NextPath ==
    \/ Path_eq
    \/ Path_cmp
    \/ \E delim \in Delims : Path_full_path(delim)
    \/ Path_iter
    \/ PathIter_next
    \/ Path_bi_iter
    \/ BiPathIter_next
    \/ BiPathIter_next_back

SpecPath == InitPath /\ [][NextPath]_vars

----------------------------------------------------------------------------
(* Interface and InterfaceDependency (src/base/mod.rs) *)

\* the byte of a character
u8(c) ==
    CASE c = "a" -> 97
      [] c = "b" -> 98
      [] c = "g" -> 103
      [] c = "i" -> 105
      [] c = "n" -> 110
      [] c = "p" -> 112
      [] c = "." -> 46
      [] c = ":" -> 58

\* [u8]::cmp: the first differing byte decides, then the lengths
RECURSIVE bytes_cmp(_, _)
bytes_cmp(x, y) ==
    IF x = <<>> THEN (IF y = <<>> THEN "Equal" ELSE "Less")
    ELSE IF y = <<>> THEN "Greater"
    ELSE IF u8(Head(x)) < u8(Head(y)) THEN "Less"
    ELSE IF u8(Head(x)) > u8(Head(y)) THEN "Greater"
    ELSE bytes_cmp(Tail(x), Tail(y))

\* String::cmp
String_cmp(x, y) == bytes_cmp(Chars(x), Chars(y))

\* impl Ord for InterfaceVersion: fn cmp
InterfaceVersion_cmp(self, other) ==
    IF self.major > other.major THEN "Greater"
    ELSE IF self.major < other.major THEN "Less"
    ELSE IF self.minor > other.minor THEN "Greater"
    ELSE IF self.minor < other.minor THEN "Less"
    ELSE IF self.patch > other.patch THEN "Greater"
    ELSE IF self.patch < other.patch THEN "Less"
    ELSE "Equal"

\* the names of a BTreeSet<Service> in the order of the set
RECURSIVE Services_iter(_)
Services_iter(serv) ==
    IF serv = {} THEN <<>>
    ELSE LET first == CHOOSE x \in serv :
                          \A y \in serv : String_cmp(x, y) \in {"Less", "Equal"}
         IN  <<first>> \o Services_iter(serv \ {first})

\* BTreeSet<Service>::cmp: the sets are compared as their ordered sequences,
\* Service by Service (derived Ord: by name)
RECURSIVE Services_cmp(_, _)
Services_cmp(x, y) ==
    IF x = <<>> THEN (IF y = <<>> THEN "Equal" ELSE "Less")
    ELSE IF y = <<>> THEN "Greater"
    ELSE LET c == String_cmp(Head(x), Head(y))
         IN  IF c = "Equal" THEN Services_cmp(Tail(x), Tail(y)) ELSE c

\* impl Ord for Interface: fn cmp, as far as it runs without undefined
\* behaviour.  self.pack.cmp is the derived Package::cmp, which is Path::cmp
\* on the two package paths; self.dep.cmp is the derived
\* InterfaceDependency::cmp, which compares the two trees as their ordered
\* sequences, Interface by Interface.
RECURSIVE Interface_cmp(_, _)
RECURSIVE InterfaceDependency_cmp(_, _)
Interface_cmp(self, other) ==
    LET cmp_name == String_cmp(self.name, other.name)
    IN  IF cmp_name # "Equal" THEN cmp_name
        ELSE LET cmp_version == InterfaceVersion_cmp(self.ver, other.ver)
             IN  IF cmp_version # "Equal" THEN cmp_version
                 ELSE LET cmp_pack == cmp(self.pack, other.pack)
                      IN  IF cmp_pack # "Equal" THEN cmp_pack
                          ELSE LET cmp_serv == Services_cmp(Services_iter(self.serv),
                                                            Services_iter(other.serv))
                               IN  IF cmp_serv # "Equal" THEN cmp_serv
                                   ELSE InterfaceDependency_cmp(self.dep, other.dep)

InterfaceDependency_cmp(x, y) ==
    IF x = <<>> THEN (IF y = <<>> THEN "Equal" ELSE "Less")
    ELSE IF y = <<>> THEN "Greater"
    ELSE LET c == Interface_cmp(Head(x), Head(y))
         IN  IF c = "Equal" THEN InterfaceDependency_cmp(Tail(x), Tail(y)) ELSE c

\* Interface::cmp calls Path::cmp when the names and the versions are equal
calls_Path_cmp(self, other) ==
    /\ String_cmp(self.name, other.name) = "Equal"
    /\ InterfaceVersion_cmp(self.ver, other.ver) = "Equal"

\* that call of Path::cmp deallocates a name buffer twice
Interface_cmp_double_free(self, other) ==
    calls_Path_cmp(self, other) /\ double_free(self.pack, other.pack)

\* what a call of Interface::cmp may end in
Interface_cmp_outcomes(self, other) ==
    IF Interface_cmp_double_free(self, other)
    THEN {Interface_cmp(self, other), "Abort"}
    ELSE {Interface_cmp(self, other)}

\* derived PartialEq for Interface: == on name, dep, ver, pack and serv, where
\* == on pack is Path::eq
RECURSIVE Interface_eq(_, _)
Interface_eq(self, other) ==
    /\ self.name = other.name
    /\ Len(self.dep) = Len(other.dep)
    /\ \A k \in 1..Len(self.dep) : Interface_eq(self.dep[k], other.dep[k])
    /\ self.ver = other.ver
    /\ eq(self.pack, other.pack)
    /\ self.serv = other.serv

\* the search of a BTreeSet node for key i: the keys are compared in order by
\* i.cmp(key) until one is not Less than i.  at is the place of the key found
\* or of the insertion, ub tells that a comparison deallocated a buffer twice.
RECURSIVE search_at(_, _, _, _)
search_at(keys, i, k, ub) ==
    IF k > Len(keys)
    THEN [res |-> "GoDown", at |-> k, ub |-> ub]
    ELSE LET c   == Interface_cmp(i, keys[k])
             ub2 == ub \/ Interface_cmp_double_free(i, keys[k])
         IN  IF c = "Greater" THEN search_at(keys, i, k + 1, ub2)
             ELSE IF c = "Equal" THEN [res |-> "Found", at |-> k, ub |-> ub2]
             ELSE IF c = "Less" THEN [res |-> "GoDown", at |-> k, ub |-> ub2]
             ELSE [res |-> c, at |-> k, ub |-> ub2]

search(keys, i) == search_at(keys, i, 1, FALSE)

\* what the search may end in
search_outcomes(keys, i) ==
    IF search(keys, i).ub
    THEN {search(keys, i).res, "Abort"}
    ELSE {search(keys, i).res}

\* Vec::insert
insert(keys, at, i) ==
    SubSeq(keys, 1, at - 1) \o <<i>> \o SubSeq(keys, at, Len(keys))

\* the process has not ended in a stack overflow or an abort
Alive == ires \notin {"StackOverflow", "Abort"}

\* the Interface values compared and added
InterfaceNames == {"a", "b"}
InterfaceVersions == {InterfaceVersion_new(1, 0, 0), InterfaceVersion_new(1, 1, 0)}
PackagePaths == {<<"">>, <<"a">>, <<"", "a">>}
Base ==
    [name |-> "a", dep |-> <<>>, ver |-> InterfaceVersion_new(1, 0, 0),
     pack |-> <<"">>, serv |-> {}]
InterfaceValues ==
    { [name |-> n, dep |-> d, ver |-> v, pack |-> p, serv |-> sv] :
        n \in InterfaceNames, d \in {<<>>, <<Base>>}, v \in InterfaceVersions,
        p \in PackagePaths, sv \in SUBSET Services }

\* a call of ia.cmp(&ib)
Interface_cmp_call ==
    /\ Alive
    /\ iop' = "cmp"
    /\ iarg' = ia
    /\ ires' \in Interface_cmp_outcomes(ia, ib)
    /\ UNCHANGED <<ia, ib, tree, iadded>>
    /\ UNCHANGED <<va, vb, vdone, vres>>
    /\ UNCHANGED <<tvars, pvars>>

\* InterfaceDependency::add(&mut self, interface_rc): BTreeSet::insert
InterfaceDependency_add(i) ==
    /\ Alive
    /\ iop' = "add"
    /\ iarg' = i
    /\ \E out \in search_outcomes(tree, i) :
          /\ ires' = IF out \in {"Found", "GoDown"} THEN "Ok" ELSE out
          /\ tree' = IF out = "GoDown" THEN insert(tree, search(tree, i).at, i) ELSE tree
          /\ iadded' = IF out \in {"Found", "GoDown"} THEN iadded \cup {i} ELSE iadded
    /\ UNCHANGED <<ia, ib>>
    /\ UNCHANGED <<va, vb, vdone, vres>>
    /\ UNCHANGED <<tvars, pvars>>

\* InterfaceDependency::includes(&self, i): BTreeSet::contains
InterfaceDependency_includes(i) ==
    /\ Alive
    /\ iop' = "includes"
    /\ iarg' = i
    /\ \E out \in search_outcomes(tree, i) :
          ires' = IF out = "Found" THEN "true"
                  ELSE IF out = "GoDown" THEN "false"
                  ELSE out
    /\ UNCHANGED <<ia, ib, tree, iadded>>
    /\ UNCHANGED <<va, vb, vdone, vres>>
    /\ UNCHANGED <<tvars, pvars>>

InitInterface ==
    /\ ia \in InterfaceValues
    /\ ib \in InterfaceValues
    /\ tree = <<>>
    /\ iop = "none"
    /\ iarg = NoInterface
    /\ ires = "none"
    /\ iadded = {}
    /\ va = InterfaceVersion_new(0, 0, 0)
    /\ vb = InterfaceVersion_new(0, 0, 0)
    /\ vdone = FALSE
    /\ vres = FALSE
    /\ TIdle
    /\ PIdle

NextInterface ==
    \/ Interface_cmp_call
    \/ \E i \in {ia, ib} : InterfaceDependency_add(i)
    \/ \E i \in {ia, ib} : InterfaceDependency_includes(i)

SpecInterface == InitInterface /\ [][NextInterface]_vars

----------------------------------------------------------------------------
(* Claims about paths *)

\* C9: two paths compare equal exactly when their chains have the same length
\* and the same name at every position.
C9_PathEquality ==
    pop = "eq" => (pres = "true" <=> pa = pb)

\* C10: for two paths whose chains differ in length, Path::cmp returns Less
\* when the first chain is shorter and Greater when it is longer.
C10_OrderByLength ==
    (pop = "cmp" /\ Len(pa) # Len(pb)) =>
        pres = (IF Len(pa) < Len(pb) THEN "Less" ELSE "Greater")

\* String::cmp on the node names of the model: byte order, "" first
NameRank(n) == IF n = "" THEN 0 ELSE IF n = "a" THEN 1 ELSE 2

\* lexicographic comparison of two name sequences of the same length, read
\* from the root (index 1) to the leaf
RECURSIVE LexFromRoot(_, _)
LexFromRoot(p, q) ==
    IF p = <<>> THEN "Equal"
    ELSE IF NameRank(Head(p)) < NameRank(Head(q)) THEN "Less"
    ELSE IF NameRank(Head(p)) > NameRank(Head(q)) THEN "Greater"
    ELSE LexFromRoot(Tail(p), Tail(q))

\* C11: for two paths of the same chain length, Path::cmp returns the
\* lexicographic comparison of their name sequences read from the root to the
\* leaf.
C11_OrderEqualLength ==
    (pop = "cmp" /\ Len(pa) = Len(pb)) => pres = LexFromRoot(pa, pb)

\* C19: Path::cmp returns an Ordering after finitely many steps for every pair
\* of paths: its recursion does not run until the stack is exhausted.
C19_CmpTerminates ==
    pop = "cmp" => pres # "StackOverflow"

\* the names of a chain from the root to the leaf, joined by delim
RECURSIVE JoinFromRoot(_, _)
JoinFromRoot(p, delim) ==
    IF Len(p) = 1 THEN Chars(p[1])
    ELSE Chars(Head(p)) \o Chars(delim) \o JoinFromRoot(Tail(p), delim)

IsPrefix(x, y) == Len(x) <= Len(y) /\ SubSeq(y, 1, Len(x)) = x

\* full_path returned, and the string holds name bytes only
ReturnedNames ==
    /\ pop = "full_path"
    /\ pres = "Ok"
    /\ \A i \in 1..Len(pstr) : pstr[i] # "?"

\* C12: the string full_path(delim) returns lists the segment names in
\* root-to-leaf order, s1 delim s2 ... delim sn (whatever follows the last
\* segment).
C12_FullPathOrder ==
    ReturnedNames => IsPrefix(JoinFromRoot(pa, pdelim), pstr)

\* number of places of str where delim starts
Occurrences(str, delim) ==
    Cardinality({ i \in 1..Len(str) :
        /\ i + Len(delim) - 1 <= Len(str)
        /\ SubSeq(str, i, i + Len(delim) - 1) = delim })

\* C13: the string full_path(delim) returns for a path of n nodes holds the
\* delimiter exactly n-1 times, and its length is the sum of the name lengths
\* plus (n-1) times the delimiter length, the capacity the function computes.
C13_FullPathDelimiters ==
    (pop = "full_path" /\ pres = "Ok") =>
        /\ Occurrences(pstr, Chars(pdelim)) = Len(pa) - 1
        /\ Len(pstr) = full_path_length(pa, pdelim)

\* the nodes of a chain from the leaf to the root: the node itself first
LeafToRoot(p) == [i \in 1..Len(p) |-> SubSeq(p, 1, Len(p) - i + 1)]

\* the nodes of a chain from the root to the leaf
RootToLeaf(p) == [i \in 1..Len(p) |-> SubSeq(p, 1, i)]

\* C14: iter() yields the n nodes of the chain from the leaf to the root and
\* then None on every further call, and it does so again on every later iter()
\* of the same path.
C14_Iteration ==
    pop = "iter" =>
        /\ pres = "Ok"
        /\ itnone > 0 => itout = LeafToRoot(pa)
        /\ itnone = 0 => itout = SubSeq(LeafToRoot(pa), 1, Len(itout))

\* C15: bi_iter() yields all n nodes of the chain, from the root to the leaf
\* through next() and from the leaf to the root through next_back(), before
\* it returns None.
C15_BiIteration ==
    pop = "bi_iter" =>
        /\ binone.f > 0 => bifwd = RootToLeaf(pa)
        /\ binone.b > 0 => bibwd = LeafToRoot(pa)

\* the order the names of the model have as Strings
InterfaceNameRank(n) == IF n = "a" THEN 1 ELSE 2

\* C16: Interface::cmp compares by name, then version, then package, then
\* service set, then dependency set, and returns Equal exactly when the two
\* interfaces are equal on all five.
C16_InterfaceOrder ==
    iop = "cmp" =>
        /\ ires = "Equal" <=> Interface_eq(ia, ib)
        /\ ia = ib => ires = "Equal"
        /\ InterfaceNameRank(ia.name) < InterfaceNameRank(ib.name) => ires = "Less"
        /\ InterfaceNameRank(ia.name) > InterfaceNameRank(ib.name) => ires = "Greater"
        /\ ires \in {"Less", "Greater", "Equal"}

\* C17: includes(i) is true exactly when an interface equal to i in all five
\* fields was added to the dependency set.
C17_Includes ==
    iop = "includes" => (ires = "true" <=> iarg \in iadded)

============================================================================
